---- MODULE Spec2Model ----
(***************************************************************************)
(* Model of the nimsforestencoder pipeline: Encoder (Start / Stop / URL,   *)
(* the processFrames goroutine), hlsServer (listener + Serve goroutine)    *)
(* and ffmpegProcess (child process fed through its stdin pipe).           *)
(*                                                                         *)
(* Every Start attempt that passes the running check gets a fresh id; the  *)
(* temp directory, listener, child, context and frame channel of that      *)
(* attempt are all named by it.  0 stands for "" / nil.                    *)
(***************************************************************************)
EXTENDS Integers, Sequences, FiniteSets, TLC

\* ---------------------------------------------------------------- bounds
MaxRuns == 2
MaxFrames == 2
\* option fields range over 0..MaxOpt and the documented default
MaxOpt == 1
\* how often withDefaults is applied in a row
MaxApply == 2

Runs == 1..MaxRuns
Callers == {1, 2}

\* ------------------------------------------------------- options.go
DefaultWidth == 1920
DefaultHeight == 1080
DefaultFrameRate == 30
DefaultSegmentDuration == 2
DefaultPort == 0

DefaultOptions ==
    [Width |-> DefaultWidth, Height |-> DefaultHeight, FrameRate |-> DefaultFrameRate,
     SegmentDuration |-> DefaultSegmentDuration, Port |-> DefaultPort]

\* withDefaults overwriting whatever was given
withDefaults_Overwrite(o) ==
    [Width |-> DefaultOptions.Width, Height |-> DefaultOptions.Height,
     FrameRate |-> DefaultOptions.FrameRate,
     SegmentDuration |-> DefaultOptions.SegmentDuration, Port |-> o.Port]

withDefaults(o) ==
    [Width |-> IF o.Width = 0 THEN DefaultOptions.Width ELSE o.Width,
     Height |-> IF o.Height = 0 THEN DefaultOptions.Height ELSE o.Height,
     FrameRate |-> IF o.FrameRate = 0 THEN DefaultOptions.FrameRate ELSE o.FrameRate,
     SegmentDuration |-> IF o.SegmentDuration = 0 THEN DefaultOptions.SegmentDuration
                         ELSE o.SegmentDuration,
     Port |-> o.Port]

\* Options{}
ZeroOptions == [Width |-> 0, Height |-> 0, FrameRate |-> 0, SegmentDuration |-> 0, Port |-> 0]

\* the Options values New is given
OptionValues ==
    [Width : 0..MaxOpt \cup {DefaultWidth}, Height : 0..MaxOpt \cup {DefaultHeight},
     FrameRate : 0..MaxOpt \cup {DefaultFrameRate},
     SegmentDuration : 0..MaxOpt \cup {DefaultSegmentDuration},
     Port : 0..MaxOpt \cup {DefaultPort}]

\* New(Options{}) : the encoder's options after withDefaults
opts == withDefaults(ZeroOptions)

\* The frames a source may send: <<width, height>> of the image bounds.
FrameKinds == {<<opts.Width, opts.Height>>, <<opts.Width + 1, opts.Height>>}

VARIABLES
    \* Encoder fields
    running, outputDir, hlsServer, ffmpeg, cancel, wg, mu,
    \* operating system / runtime
    nextId,      \* ids handed out so far
    dirs,        \* temp directories that exist
    listening,   \* listeners that are open (the port accepts connections)
    serve,       \* per server: the goroutine of hlsServer.Start
    inShutdown,  \* per server: http.Server.Shutdown was called
    child,       \* per ffmpeg process: none / alive / exited / reaped (waited for)
    stdinClosed, \* per ffmpeg process: our end of the stdin pipe is closed
    \* per run
    ctxCancelled, \* the context given to Start is cancelled
    cancelCalled, \* the cancel function made in Start was called
    frames,       \* the frames the source has handed over on the channel, in order
    written,      \* per ffmpeg process: the frames it was given, <<run, index>>
    task,         \* the processFrames goroutine: none / select / writing / done
    taskEnd,      \* why it returned
    \* callers
    pc, cur, errs, stopTrace,
    \* the call that returned in the latest step, if one did
    ret,
    \* per directory: stream.m3u8 in it: absent / empty / ready (has content)
    playlist,
    \* the Options given to New, followed by what withDefaults made of them
    optTrace

encVars == <<running, outputDir, hlsServer, ffmpeg, cancel, wg>>
osVars == <<nextId, dirs, listening, serve, inShutdown, child, stdinClosed>>
runVars == <<ctxCancelled, cancelCalled, frames, written, task, taskEnd>>
callVars == <<pc, cur, errs, stopTrace>>
auxVars == <<playlist, optTrace>>
vars == <<encVars, mu, osVars, runVars, callVars, ret, auxVars>>

NoRet == [op |-> "none", err |-> "none", url |-> 0, trace |-> <<>>]
Ret(op, err, url, tr) == [op |-> op, err |-> err, url |-> url, trace |-> tr]

\* &Encoder{opts: opts}: every other field has its zero value
InitEncoder ==
    /\ running = FALSE /\ outputDir = 0 /\ hlsServer = 0 /\ ffmpeg = 0
    /\ cancel = 0 /\ wg = 0 /\ mu = 0
    /\ nextId = 0 /\ dirs = {} /\ listening = {}
    /\ serve = [r \in Runs |-> "none"]
    /\ inShutdown = [r \in Runs |-> FALSE]
    /\ child = [r \in Runs |-> "none"]
    /\ stdinClosed = [r \in Runs |-> FALSE]
    /\ ctxCancelled = [r \in Runs |-> FALSE]
    /\ cancelCalled = [r \in Runs |-> FALSE]
    /\ frames = [r \in Runs |-> <<>>]
    /\ written = [r \in Runs |-> <<>>]
    /\ task = [r \in Runs |-> "none"]
    /\ taskEnd = [r \in Runs |-> "none"]
    /\ pc = [c \in Callers |-> "idle"]
    /\ cur = [c \in Callers |-> 0]
    /\ errs = [c \in Callers |-> <<>>]
    /\ stopTrace = <<>>
    /\ ret = NoRet
    /\ playlist = [r \in Runs |-> "absent"]

\* New(Options{})
Init == InitEncoder /\ optTrace = <<ZeroOptions, opts>>

\* ------------------------------------------------------------ helpers
\* a mutex that lets everybody in
CanLock_Always(m) == TRUE

\* sync.Mutex: Lock() proceeds only when nobody holds the mutex
CanLock(m) == m = 0

\* Start without the running check
AlreadyRunning_Unchecked(r) == FALSE

\* if e.running { return "", already running }
AlreadyRunning(r) == r

\* Stop without the running check
NotRunning_Unchecked(r) == FALSE

\* if !e.running { return nil }
NotRunning(r) == ~r

\* Stop returning the last collected error
FirstError_Last(es) == IF Len(es) > 0 THEN es[Len(es)] ELSE "none"

\* if len(errs) > 0 { return errs[0] }; return nil
FirstError(es) == IF Len(es) > 0 THEN es[1] ELSE "none"

\* a server that binds only when its Serve goroutine gets to run
NetListen_Lazy(open, id) == open

\* net.Listen: from its return on, the socket is bound and listening
NetListen(open, id) == open \cup {id}

\* os.RemoveAll(dir) that succeeds
RemoveAll(ds, id) == ds \ {id}

\* ... and the playlist goes with its directory
RemoveAllFiles(pl, id) == [pl EXCEPT ![id] = "absent"]

\* http.Server.Shutdown closes the listeners Serve has registered; a
\* listener whose Serve call has not started yet is not known to it.
ShutdownCloses(sv) == sv = "serving"

\* a derived context whose cancel function does nothing
CtxDone_CallerOnly(id) == ctxCancelled[id]

\* ctx.Done() of the context derived in Start: done when the caller's
\* context is cancelled or e.cancel() was called
CtxDone(id) == ctxCancelled[id] \/ cancelCalled[id]

\* the validation with && in place of ||
SizeMismatch_And(f) == f[1] # opts.Width /\ f[2] # opts.Height

\* frameToRGBA's validation: width != e.opts.Width || height != e.opts.Height
SizeMismatch(f) == f[1] # opts.Width \/ f[2] # opts.Height

\* return on a frameToRGBA error
AfterConvertError_Return == "done"

\* processFrames: what follows a frameToRGBA error (continue)
AfterConvertError == "select"

\* continue on a WriteFrame error
AfterWriteError_Continue == "select"

\* processFrames: what follows a WriteFrame error (return)
AfterWriteError == "done"

\* a Stop that leaves the flag set
StoppedRunning_StillSet == TRUE

\* e.running = false at the end of Stop
StoppedRunning == FALSE

\* a Stop that does not wait for the goroutine
WaitDone_NoWait(n) == TRUE

\* e.wg.Wait() returns when the counter is zero
WaitDone(n) == n = 0

\* a write that never fails: with no reader it blocks for ever
PipeBroken_Never(ch, closed) == FALSE

\* f.stdin.Write fails: the child (the pipe's reader) is gone, or our end is closed
PipeBroken(ch, closed) == ch # "alive" \/ closed

\* one teardown step of Stop, as it went
Step(name, ok) == [step |-> name, ok |-> ok]

\* hlsServer.Stop -> http.Server.Shutdown(context.Background()) on server id,
\* returning ok.  A registered listener is closed, and Serve returns; the
\* close may report an error (the result of Shutdown), the socket is released
\* either way.  An unregistered listener is left to the Serve goroutine.
Shutdown(id, ok) ==
    /\ inShutdown' = [inShutdown EXCEPT ![id] = TRUE]
    /\ IF ShutdownCloses(serve[id])
       THEN /\ listening' = listening \ {id}
            /\ serve' = [serve EXCEPT ![id] = "done"]
       ELSE ok /\ UNCHANGED <<listening, serve>>

\* ------------------------------------------------------------ Encoder.Start
\* Lock, the running check and os.MkdirTemp
StartBegin(c) ==
    /\ pc[c] = "idle"
    /\ UNCHANGED auxVars
    /\ CanLock(mu)
    /\ IF AlreadyRunning(running)
       THEN /\ ret' = Ret("Start", "already running", 0, <<>>)
            /\ UNCHANGED <<encVars, mu, osVars, runVars, pc, cur, errs, stopTrace>>
       ELSE /\ nextId < MaxRuns
            /\ \/ \* MkdirTemp fails
                  /\ ret' = Ret("Start", "temp directory", 0, <<>>)
                  /\ UNCHANGED <<encVars, mu, osVars, runVars, pc, cur, errs, stopTrace>>
               \/ \* MkdirTemp succeeds; e.outputDir = outputDir
                  /\ nextId' = nextId + 1
                  /\ dirs' = dirs \cup {nextId + 1}
                  /\ outputDir' = nextId + 1
                  /\ cur' = [cur EXCEPT ![c] = nextId + 1]
                  /\ mu' = c
                  /\ pc' = [pc EXCEPT ![c] = "start_listen"]
                  /\ ret' = NoRet
                  /\ UNCHANGED <<running, hlsServer, ffmpeg, cancel, wg, listening, serve,
                                 inShutdown, child, stdinClosed, runVars, errs, stopTrace>>

\* newHLSServer and hlsServer.Start
StartListen(c) ==
    /\ pc[c] = "start_listen"
    /\ UNCHANGED optTrace
    /\ \/ \* net.Listen fails: remove the directory (made a moment ago and still
          \* empty; the result of RemoveAll is not looked at), return the error
          /\ dirs' = RemoveAll(dirs, cur[c])
          /\ playlist' = RemoveAllFiles(playlist, cur[c])
          /\ ret' = Ret("Start", "HLS server", 0, <<>>)
          /\ mu' = 0
          /\ pc' = [pc EXCEPT ![c] = "idle"]
          /\ cur' = [cur EXCEPT ![c] = 0]
          /\ UNCHANGED <<encVars, nextId, listening, serve, inShutdown, child, stdinClosed,
                         runVars, errs, stopTrace>>
       \/ \* listener bound; e.hlsServer set; Serve goroutine launched
          /\ listening' = NetListen(listening, cur[c])
          /\ hlsServer' = cur[c]
          /\ serve' = [serve EXCEPT ![cur[c]] = "pending"]
          /\ pc' = [pc EXCEPT ![c] = "start_spawn"]
          /\ ret' = NoRet
          /\ UNCHANGED <<running, outputDir, ffmpeg, cancel, wg, mu, nextId, dirs, inShutdown,
                         child, stdinClosed, runVars, cur, errs, stopTrace, playlist>>

\* newFFmpegProcess, then the launch of processFrames and the return of the URL
StartSpawn(c) ==
    /\ pc[c] = "start_spawn"
    /\ UNCHANGED optTrace
    /\ \/ \* spawn fails: stop the server (result ignored), remove the directory
          /\ \E ok \in BOOLEAN : Shutdown(cur[c], ok)
          /\ dirs' = RemoveAll(dirs, cur[c])
          /\ playlist' = RemoveAllFiles(playlist, cur[c])
          /\ ret' = Ret("Start", "ffmpeg", 0, <<>>)
          /\ mu' = 0
          /\ pc' = [pc EXCEPT ![c] = "idle"]
          /\ cur' = [cur EXCEPT ![c] = 0]
          /\ UNCHANGED <<encVars, nextId, child, stdinClosed, runVars, errs, stopTrace>>
       \/ \* child started
          /\ child' = [child EXCEPT ![cur[c]] = "alive"]
          /\ ffmpeg' = cur[c]
          /\ cancel' = cur[c]
          /\ running' = TRUE
          /\ wg' = wg + 1
          /\ task' = [task EXCEPT ![cur[c]] = "select"]
          /\ ret' = Ret("Start", "none", cur[c], <<>>)
          /\ mu' = 0
          /\ pc' = [pc EXCEPT ![c] = "idle"]
          /\ cur' = [cur EXCEPT ![c] = 0]
          /\ UNCHANGED <<outputDir, hlsServer, nextId, dirs, listening, serve, inShutdown,
                         stdinClosed, ctxCancelled, cancelCalled, frames, written,
                         taskEnd, errs, stopTrace, playlist>>

\* ------------------------------------------------------------ Encoder.URL
URL(c) ==
    /\ pc[c] = "idle"
    /\ UNCHANGED auxVars
    /\ CanLock(mu)
    /\ ret' = Ret("URL", "none", hlsServer, <<>>)
    /\ UNCHANGED <<encVars, mu, osVars, runVars, pc, cur, errs, stopTrace>>

\* ------------------------------------------------------ Encoder.WaitReady
\* a stat that only asks whether the file is there
PollOnce_AnyFile(ctxDone, late, file) ==
    IF ctxDone THEN "context"
    ELSE IF late THEN "timeout"
    ELSE IF file # "absent" THEN "none"
    ELSE "again"

\* One turn of the loop: ctx.Done() first, then the deadline, then os.Stat of
\* the playlist (err == nil && info.Size() > 0); "again" is the sleep and
\* another turn.
PollOnce(ctxDone, late, file) ==
    IF ctxDone THEN "context"
    ELSE IF late THEN "timeout"
    ELSE IF file = "ready" THEN "none"
    ELSE "again"

\* the checks a returning turn went through, and how each went
PollTrace(ctxDone, late, file) ==
    IF ctxDone THEN <<Step("ctx", FALSE)>>
    ELSE IF late THEN <<Step("ctx", TRUE), Step("deadline", FALSE)>>
    ELSE <<Step("ctx", TRUE), Step("deadline", TRUE), Step("stat", file = "ready")>>

\* Lock; outputDir := e.outputDir; Unlock; the not-started check
WaitReadyBegin(c) ==
    /\ pc[c] = "idle"
    /\ CanLock(mu)
    /\ IF outputDir = 0
       THEN /\ ret' = Ret("WaitReady", "not started", 0, <<>>)
            /\ UNCHANGED <<pc, cur>>
       ELSE /\ pc' = [pc EXCEPT ![c] = "wait_poll"]
            /\ cur' = [cur EXCEPT ![c] = outputDir]
            /\ ret' = NoRet
    /\ UNCHANGED <<encVars, mu, osVars, runVars, errs, stopTrace, auxVars>>

\* The turn of the loop in which WaitReady returns.  Whether the caller's
\* context is done and whether the deadline has passed is for the caller and
\* the clock to decide; a turn that finds neither, and no playlist with
\* content, sleeps and changes nothing.
WaitReadyPoll(c) ==
    /\ pc[c] = "wait_poll"
    /\ \E ctxDone \in BOOLEAN, late \in BOOLEAN :
          /\ PollOnce(ctxDone, late, playlist[cur[c]]) # "again"
          /\ ret' = Ret("WaitReady", PollOnce(ctxDone, late, playlist[cur[c]]), 0,
                        PollTrace(ctxDone, late, playlist[cur[c]]))
    /\ pc' = [pc EXCEPT ![c] = "idle"]
    /\ cur' = [cur EXCEPT ![c] = 0]
    /\ UNCHANGED <<encVars, mu, osVars, runVars, errs, stopTrace, auxVars>>

\* ------------------------------------------- goroutine of hlsServer.Start
\* h.server.Serve(h.listener): registers the listener and serves, or, when
\* Shutdown came first, returns at once and closes the listener on the way out
ServeRun(id) ==
    /\ serve[id] = "pending"
    /\ UNCHANGED auxVars
    /\ IF inShutdown[id]
       THEN /\ serve' = [serve EXCEPT ![id] = "done"]
            /\ listening' = listening \ {id}
       ELSE /\ serve' = [serve EXCEPT ![id] = "serving"]
            /\ UNCHANGED listening
    /\ ret' = NoRet
    /\ UNCHANGED <<encVars, mu, nextId, dirs, inShutdown, child, stdinClosed, runVars, callVars>>

\* ------------------------------------------------- Encoder.processFrames
\* processFrames without the deferred e.wg.Done()
TaskGoes_NoDone(id, st, why) ==
    /\ task' = [task EXCEPT ![id] = st]
    /\ taskEnd' = IF st = "done" THEN [taskEnd EXCEPT ![id] = why] ELSE taskEnd
    /\ UNCHANGED wg

\* The goroutine of run id moves to state st; reaching "done" is its return,
\* where the deferred e.wg.Done() runs.
TaskGoes(id, st, why) ==
    /\ task' = [task EXCEPT ![id] = st]
    /\ IF st = "done"
       THEN /\ taskEnd' = [taskEnd EXCEPT ![id] = why]
            /\ wg' = wg - 1
       ELSE UNCHANGED <<taskEnd, wg>>

\* case <-ctx.Done(): return
TaskCancelled(id) ==
    /\ task[id] = "select"
    /\ UNCHANGED auxVars
    /\ CtxDone(id)
    /\ TaskGoes(id, "done", "cancel")
    /\ ret' = NoRet
    /\ UNCHANGED <<running, outputDir, hlsServer, ffmpeg, cancel, mu, osVars, ctxCancelled,
                   cancelCalled, frames, written, callVars>>

\* case frame, ok := <-frames with ok: the source hands over frame f;
\* frameToRGBA, then either continue or go on to WriteFrame
TaskRecv(id, f) ==
    /\ task[id] = "select"
    /\ UNCHANGED auxVars
    /\ Len(frames[id]) < MaxFrames
    /\ frames' = [frames EXCEPT ![id] = Append(frames[id], f)]
    /\ IF SizeMismatch(f)
       THEN TaskGoes(id, AfterConvertError, "convert")
       ELSE TaskGoes(id, "writing", "none")
    /\ ret' = NoRet
    /\ UNCHANGED <<running, outputDir, hlsServer, ffmpeg, cancel, mu, osVars, ctxCancelled,
                   cancelCalled, written, callVars>>

\* case frame, ok := <-frames with !ok: the source has closed the channel
TaskSourceClosed(id) ==
    /\ task[id] = "select"
    /\ UNCHANGED auxVars
    /\ TaskGoes(id, "done", "closed")
    /\ ret' = NoRet
    /\ UNCHANGED <<running, outputDir, hlsServer, ffmpeg, cancel, mu, osVars, ctxCancelled,
                   cancelCalled, frames, written, callVars>>

\* e.ffmpeg.WriteFrame(buf) returns nil: the child took the frame
TaskWriteOk(id) ==
    /\ task[id] = "writing"
    /\ UNCHANGED auxVars
    /\ ffmpeg # 0
    /\ child[ffmpeg] = "alive"
    /\ ~stdinClosed[ffmpeg]
    /\ written' = [written EXCEPT ![ffmpeg] = Append(written[ffmpeg], <<id, Len(frames[id])>>)]
    /\ TaskGoes(id, "select", "none")
    /\ ret' = NoRet
    /\ UNCHANGED <<running, outputDir, hlsServer, ffmpeg, cancel, mu, osVars, ctxCancelled,
                   cancelCalled, frames, callVars>>

\* e.ffmpeg.WriteFrame(buf) returns an error: the pipe has no reader any more
TaskWriteFail(id) ==
    /\ task[id] = "writing"
    /\ UNCHANGED auxVars
    /\ ffmpeg # 0
    /\ PipeBroken(child[ffmpeg], stdinClosed[ffmpeg])
    /\ TaskGoes(id, AfterWriteError, "write")
    /\ ret' = NoRet
    /\ UNCHANGED <<running, outputDir, hlsServer, ffmpeg, cancel, mu, osVars, ctxCancelled,
                   cancelCalled, frames, written, callVars>>

\* ------------------------------------------------------------ environment
\* the context given to Start is cancelled
CancelCtx(id) ==
    /\ task[id] \in {"select", "writing"}
    /\ UNCHANGED auxVars
    /\ ~ctxCancelled[id]
    /\ ctxCancelled' = [ctxCancelled EXCEPT ![id] = TRUE]
    /\ ret' = NoRet
    /\ UNCHANGED <<encVars, mu, osVars, cancelCalled, frames, written,
                   task, taskEnd, callVars>>

\* the ffmpeg child exits: after end of input, or on its own
ChildExit(id) ==
    /\ child[id] = "alive"
    /\ UNCHANGED auxVars
    /\ child' = [child EXCEPT ![id] = "exited"]
    /\ ret' = NoRet
    /\ UNCHANGED <<encVars, mu, nextId, dirs, listening, serve, inShutdown, stdinClosed,
                   runVars, callVars>>

\* ffmpeg's HLS muxer writes OUTPUT_DIR/stream.m3u8: the file is created,
\* then has content
ChildWritesPlaylist(id) ==
    /\ child[id] = "alive"
    /\ id \in dirs
    /\ playlist[id] # "ready"
    /\ playlist' = [playlist EXCEPT ![id] = IF playlist[id] = "absent" THEN "empty" ELSE "ready"]
    /\ ret' = NoRet
    /\ UNCHANGED <<encVars, mu, osVars, runVars, callVars, optTrace>>

\* The channel, the contexts and the record of what was written are kept for
\* a run until Stop has waited for its goroutine (e.wg.Wait() has returned):
\* nothing reads the channel or the context after that.
Retire ==
    LET over(id) == task[id] = "done" IN
    /\ frames' = [id \in Runs |-> IF over(id) THEN <<>> ELSE frames[id]]
    /\ written' = [id \in Runs |-> IF over(id) THEN <<>> ELSE written[id]]
    /\ ctxCancelled' = [id \in Runs |-> IF over(id) THEN FALSE ELSE ctxCancelled[id]]
    /\ cancelCalled' = [id \in Runs |-> IF over(id) THEN FALSE ELSE cancelCalled[id]]
    /\ taskEnd' = [id \in Runs |-> IF over(id) THEN "none" ELSE taskEnd[id]]

\* ------------------------------------------------------------ Encoder.Stop
\* Lock, the running check, e.cancel()
StopBegin(c) ==
    /\ pc[c] = "idle"
    /\ UNCHANGED auxVars
    /\ CanLock(mu)
    /\ IF NotRunning(running)
       THEN /\ ret' = Ret("Stop", "none", 0, <<>>)
            /\ UNCHANGED <<encVars, mu, osVars, runVars, pc, cur, errs, stopTrace>>
       ELSE /\ mu' = c
            /\ cancelCalled' = IF cancel # 0 THEN [cancelCalled EXCEPT ![cancel] = TRUE]
                               ELSE cancelCalled
            /\ pc' = [pc EXCEPT ![c] = "stop_wait"]
            /\ errs' = [errs EXCEPT ![c] = <<>>]
            /\ stopTrace' = <<Step("cancel", TRUE)>>
            /\ ret' = NoRet
            /\ UNCHANGED <<encVars, osVars, ctxCancelled, frames, written, task,
                           taskEnd, cur>>

\* e.wg.Wait()
StopWait(c) ==
    /\ pc[c] = "stop_wait"
    /\ UNCHANGED auxVars
    /\ WaitDone(wg)
    /\ pc' = [pc EXCEPT ![c] = "stop_close"]
    /\ stopTrace' = Append(stopTrace, Step("wait", TRUE))
    /\ Retire
    /\ ret' = NoRet
    /\ UNCHANGED <<encVars, mu, osVars, task, cur, errs>>

\* e.ffmpeg.Close(): f.stdin.Close(), which may fail, then on to cmd.Wait()
StopClose(c) ==
    /\ pc[c] = "stop_close"
    /\ UNCHANGED auxVars
    /\ IF ffmpeg = 0
       THEN /\ pc' = [pc EXCEPT ![c] = "stop_server"]
            /\ UNCHANGED <<stdinClosed, errs, stopTrace>>
       ELSE \/ \* stdin.Close fails: Close returns without waiting
               /\ errs' = [errs EXCEPT ![c] = Append(errs[c], "ffmpeg close")]
               /\ stopTrace' = Append(stopTrace, Step("close", FALSE))
               /\ pc' = [pc EXCEPT ![c] = "stop_server"]
               /\ UNCHANGED stdinClosed
            \/ /\ stdinClosed' = [stdinClosed EXCEPT ![ffmpeg] = TRUE]
               /\ pc' = [pc EXCEPT ![c] = "stop_closewait"]
               /\ UNCHANGED <<errs, stopTrace>>
    /\ ret' = NoRet
    /\ UNCHANGED <<encVars, mu, nextId, dirs, listening, serve, inShutdown, child,
                   runVars, cur>>

\* f.cmd.Wait(): returns when the child has exited, with an error when its
\* status is not zero
StopCloseWait(c) ==
    /\ pc[c] = "stop_closewait"
    /\ UNCHANGED auxVars
    /\ child[ffmpeg] # "alive"
    /\ \E ok \in BOOLEAN :  \* the exit status was zero, or not
          /\ errs' = [errs EXCEPT ![c] = IF ok THEN errs[c]
                                         ELSE Append(errs[c], "ffmpeg close")]
          /\ stopTrace' = Append(stopTrace, Step("close", ok))
    /\ child' = [child EXCEPT ![ffmpeg] = "reaped"]
    /\ pc' = [pc EXCEPT ![c] = "stop_server"]
    /\ ret' = NoRet
    /\ UNCHANGED <<encVars, mu, nextId, dirs, listening, serve, inShutdown, stdinClosed,
                   runVars, cur>>

\* e.hlsServer.Stop(context.Background())
StopServer(c) ==
    /\ pc[c] = "stop_server"
    /\ UNCHANGED auxVars
    /\ IF hlsServer = 0
       THEN UNCHANGED <<inShutdown, listening, serve, errs, stopTrace>>
       ELSE \E ok \in BOOLEAN :
                  /\ Shutdown(hlsServer, ok)
                  /\ stopTrace' = Append(stopTrace, Step("server", ok))
                  /\ errs' = [errs EXCEPT ![c] = IF ok THEN errs[c]
                                                 ELSE Append(errs[c], "HLS server stop")]
    /\ pc' = [pc EXCEPT ![c] = "stop_remove"]
    /\ ret' = NoRet
    /\ UNCHANGED <<encVars, mu, nextId, dirs, child, stdinClosed, runVars, cur>>

\* os.RemoveAll(e.outputDir), e.running = false, return errs[0] or nil
StopRemove(c) ==
    /\ pc[c] = "stop_remove"
    /\ UNCHANGED optTrace
    /\ IF outputDir = 0
       THEN /\ ret' = Ret("Stop", FirstError(errs[c]), 0, stopTrace)
            /\ UNCHANGED <<dirs, playlist>>
       ELSE \/ /\ dirs' = RemoveAll(dirs, outputDir)
               /\ playlist' = RemoveAllFiles(playlist, outputDir)
               /\ ret' = Ret("Stop", FirstError(errs[c]), 0,
                             Append(stopTrace, Step("remove", TRUE)))
            \/ \* RemoveAll fails
               /\ UNCHANGED <<dirs, playlist>>
               /\ ret' = Ret("Stop", FirstError(Append(errs[c], "cleanup")), 0,
                             Append(stopTrace, Step("remove", FALSE)))
    /\ running' = StoppedRunning
    /\ stopTrace' = <<>>
    /\ errs' = [errs EXCEPT ![c] = <<>>]
    /\ mu' = 0
    /\ pc' = [pc EXCEPT ![c] = "idle"]
    /\ UNCHANGED <<outputDir, hlsServer, ffmpeg, cancel, wg, nextId, listening, serve,
                   inShutdown, child, stdinClosed, runVars, cur>>

\* ------------------------------------------------------------ specification
Next ==
    \/ \E c \in Callers : StartBegin(c)
    \/ \E c \in Callers : StartListen(c)
    \/ \E c \in Callers : StartSpawn(c)
    \/ \E c \in Callers : URL(c)
    \/ \E c \in Callers : StopBegin(c)
    \/ \E c \in Callers : StopWait(c)
    \/ \E c \in Callers : StopClose(c)
    \/ \E c \in Callers : StopCloseWait(c)
    \/ \E c \in Callers : StopServer(c)
    \/ \E c \in Callers : StopRemove(c)
    \/ \E id \in Runs : ServeRun(id)
    \/ \E id \in Runs : TaskCancelled(id)
    \/ \E id \in Runs, f \in FrameKinds : TaskRecv(id, f)
    \/ \E id \in Runs : TaskSourceClosed(id)
    \/ \E id \in Runs : TaskWriteOk(id)
    \/ \E id \in Runs : TaskWriteFail(id)
    \/ \E id \in Runs : CancelCtx(id)
    \/ \E id \in Runs : ChildExit(id)

Spec == Init /\ [][Next]_vars

\* ------------------------------------------------------- New(opts)
\* New given any Options value
OptInit == InitEncoder /\ \E o \in OptionValues : optTrace = <<o>>

\* opts = opts.withDefaults(), and the same applied to its own result
ApplyDefaults ==
    /\ Len(optTrace) <= MaxApply
    /\ optTrace' = Append(optTrace, withDefaults(optTrace[Len(optTrace)]))
    /\ UNCHANGED <<encVars, mu, osVars, runVars, callVars, ret, playlist>>

OptSpec == OptInit /\ [][ApplyDefaults]_vars

\* ------------------------------------------------- a source that stays silent
\* The runs in which the frame channel never delivers and is never closed:
\* processFrames stays in its select until the context is done.
QuietNext ==
    \/ \E c \in Callers : StartBegin(c)
    \/ \E c \in Callers : StartListen(c)
    \/ \E c \in Callers : StartSpawn(c)
    \/ \E c \in Callers : StopBegin(c)
    \/ \E c \in Callers : StopWait(c)
    \/ \E c \in Callers : StopClose(c)
    \/ \E c \in Callers : StopCloseWait(c)
    \/ \E c \in Callers : StopServer(c)
    \/ \E c \in Callers : StopRemove(c)
    \/ \E id \in Runs : ServeRun(id)
    \/ \E id \in Runs : TaskCancelled(id)
    \/ \E id \in Runs : CancelCtx(id)
    \/ \E id \in Runs : ChildExit(id)

\* ffmpeg exits when it reads end of input
ChildExitsAfterEOF == \E id \in Runs : stdinClosed[id] /\ ChildExit(id)

\* A goroutine that can run does run (the Go scheduler), for the goroutine of
\* processFrames and for the one inside Stop; and the child exits at end of input.
QuietFairness ==
    /\ WF_vars(\E id \in Runs : TaskCancelled(id))
    /\ WF_vars(\E c \in Callers : StopWait(c))
    /\ WF_vars(\E c \in Callers : StopClose(c))
    /\ WF_vars(\E c \in Callers : StopCloseWait(c))
    /\ WF_vars(\E c \in Callers : StopServer(c))
    /\ WF_vars(\E c \in Callers : StopRemove(c))
    /\ WF_vars(ChildExitsAfterEOF)

QuietSpec == Init /\ [][QuietNext]_vars /\ QuietFairness

\* ------------------------------------------------- Stop against a live source
\* Start and Stop callers with a source that sends and closes, a child that
\* takes frames or exits, and a caller's context that may be cancelled.
StopNext ==
    \/ \E c \in Callers : StartBegin(c)
    \/ \E c \in Callers : StartListen(c)
    \/ \E c \in Callers : StartSpawn(c)
    \/ \E c \in Callers : StopBegin(c)
    \/ \E c \in Callers : StopWait(c)
    \/ \E c \in Callers : StopClose(c)
    \/ \E c \in Callers : StopCloseWait(c)
    \/ \E c \in Callers : StopServer(c)
    \/ \E c \in Callers : StopRemove(c)
    \/ \E id \in Runs : TaskCancelled(id)
    \/ \E id \in Runs, f \in FrameKinds : TaskRecv(id, f)
    \/ \E id \in Runs : TaskSourceClosed(id)
    \/ \E id \in Runs : TaskWriteOk(id)
    \/ \E id \in Runs : TaskWriteFail(id)
    \/ \E id \in Runs : CancelCtx(id)
    \/ \E id \in Runs : ChildExit(id)

\* f.stdin.Write returns: the child has read the frame, or the child is gone
WriteReturns == \E id \in Runs : TaskWriteOk(id) \/ TaskWriteFail(id)

\* The goroutines inside Stop run when they can, a pending write returns (the
\* child reads it or exits), and the child exits at end of input.  select
\* picks at random among the cases that are ready, so a goroutine that comes
\* back to its select again and again with the context done takes the
\* ctx.Done() case in the end: strong fairness.
StopFairness ==
    /\ SF_vars(\E id \in Runs : TaskCancelled(id))
    /\ WF_vars(WriteReturns)
    /\ WF_vars(\E c \in Callers : StopWait(c))
    /\ WF_vars(\E c \in Callers : StopClose(c))
    /\ WF_vars(\E c \in Callers : StopCloseWait(c))
    /\ WF_vars(\E c \in Callers : StopServer(c))
    /\ WF_vars(\E c \in Callers : StopRemove(c))
    /\ WF_vars(ChildExitsAfterEOF)

StopSpec == Init /\ [][StopNext]_vars /\ StopFairness

\* ------------------------------------------------- callers of WaitReady
\* Start, Stop and WaitReady callers, with the child writing its playlist.
\* WaitReady reads e.outputDir and the file system and nothing else, so what
\* has no part in either is left out: the source stays silent, the caller of
\* Start does not cancel, and the Serve goroutine is not followed.
WaitNext ==
    \/ \E c \in Callers : StartBegin(c)
    \/ \E c \in Callers : StartListen(c)
    \/ \E c \in Callers : StartSpawn(c)
    \/ \E c \in Callers : StopBegin(c)
    \/ \E c \in Callers : StopWait(c)
    \/ \E c \in Callers : StopClose(c)
    \/ \E c \in Callers : StopCloseWait(c)
    \/ \E c \in Callers : StopServer(c)
    \/ \E c \in Callers : StopRemove(c)
    \/ \E id \in Runs : TaskCancelled(id)
    \/ \E id \in Runs : ChildExit(id)
    \/ \E c \in Callers : WaitReadyBegin(c)
    \/ \E c \in Callers : WaitReadyPoll(c)
    \/ \E id \in Runs : ChildWritesPlaylist(id)

WaitSpec == Init /\ [][WaitNext]_vars

\* ================================================================ claims
\* what the claims call a correctly sized frame
Matches(f) == f = <<opts.Width, opts.Height>>

RECURSIVE MatchingIdx(_, _)
\* <<id, i>> for the correctly sized frames among the first n of run id, in order
MatchingIdx(id, n) ==
    IF n = 0 THEN <<>>
    ELSE IF Matches(frames[id][n]) THEN Append(MatchingIdx(id, n - 1), <<id, n>>)
         ELSE MatchingIdx(id, n - 1)

IsPrefix(a, b) == Len(a) <= Len(b) /\ SubSeq(b, 1, Len(a)) = a

AllIdle == \A c \in Callers : pc[c] = "idle"

\* a Stop that found the pipeline running has returned in the latest step
StopReturned == ret.op = "Stop" /\ ret.trace # <<>>

\* C1: a Start that returns while the pipeline is running returns the
\* already-running error, and that step changes no field of the encoder, no
\* directory, listener, Serve goroutine or child, and nothing of the run.
C1_StartTwiceRejected ==
    [][(running /\ ret'.op = "Start") =>
          /\ ret'.err = "already running"
          /\ UNCHANGED <<encVars, mu, osVars, runVars>>]_vars

C1_Witness == running /\ ret.op = "Start" /\ ret.err = "already running"

\* C2: a Stop that returns while the pipeline is not running returns nil, has
\* run no teardown step and changes nothing.
C2_StopIdempotent ==
    [][(~running /\ ret'.op = "Stop") =>
          /\ ret'.err = "none"
          /\ ret'.trace = <<>>
          /\ UNCHANGED <<encVars, mu, osVars, runVars>>]_vars

\* a no-op Stop after an earlier Start (failed, or stopped since)
C2_Witness ==
    ~running /\ outputDir # 0 /\ ret.op = "Stop" /\ ret.err = "none" /\ ret.trace = <<>>

\* C3 (as claimed): when Start returns an acquisition error, nothing of that
\* attempt is left: no directory, no open listener, no child, no goroutine,
\* and the pipeline is not running.
C3_FailedStartReleasesAll ==
    (ret.op = "Start" /\ ret.err \in {"temp directory", "HLS server", "ffmpeg"}) =>
        /\ ~running
        /\ ret.err # "temp directory" =>
              /\ nextId \notin dirs
              /\ nextId \notin listening
              /\ child[nextId] = "none"
              /\ task[nextId] = "none"

\* C4: a Stop that found the pipeline running has gone through cancel, wait,
\* close, server stop and directory removal in this order whatever failed,
\* leaves the pipeline not running, and returns the error of the earliest
\* step that failed, nil when none did.
StepError(name) ==
    CASE name = "close" -> "ffmpeg close"
      [] name = "server" -> "HLS server stop"
      [] name = "remove" -> "cleanup"
      [] OTHER -> "none"

EarliestFailure(tr) ==
    LET bad == {i \in 1..Len(tr) : ~tr[i].ok} IN
    IF bad = {} THEN "none"
    ELSE StepError(tr[CHOOSE i \in bad : \A j \in bad : i <= j].step)

C4_StopRunsAllSteps ==
    StopReturned =>
        /\ [i \in 1..Len(ret.trace) |-> ret.trace[i].step]
              = <<"cancel", "wait", "close", "server", "remove">>
        /\ ~running
        /\ ret.err = EarliestFailure(ret.trace)

\* the close and the removal failed, the server stop did not
C4_Witness ==
    /\ StopReturned
    /\ Len(ret.trace) = 5
    /\ ~ret.trace[3].ok /\ ret.trace[4].ok /\ ~ret.trace[5].ok
    /\ ret.err = "ffmpeg close"

\* C5 (as claimed): when a Stop that found the pipeline running returns, the
\* run's directory does not exist and its listener is closed.
C5_StopLeavesNothing ==
    StopReturned => (outputDir \notin dirs /\ hlsServer \notin listening)

\* C6: the child of a run is spawned only when the run's listener is already
\* open, and when Start returns a URL the listener it names is open.
C6_ListeningBeforeURL ==
    [][/\ \A id \in Runs : (child[id] = "none" /\ child'[id] # "none") => id \in listening
       /\ (ret'.op = "Start" /\ ret'.err = "none") =>
              (ret'.url # 0 /\ ret'.url \in listening')]_vars

\* Start has returned the URL; the Serve goroutine has not run yet and no
\* frame has been handed over
C6_Witness ==
    /\ ret.op = "Start" /\ ret.err = "none" /\ ret.url \in listening
    /\ serve[ret.url] = "pending" /\ frames[ret.url] = <<>>

\* C7: what the child of a run was given is a prefix of the run's correctly
\* sized frames, in order; it is all of them whenever the goroutine waits in
\* select, and all but the one in hand while it writes.
C7_WrittenIsPrefix ==
    \A id \in Runs :
        LET want == MatchingIdx(id, Len(frames[id])) IN
        /\ IsPrefix(written[id], want)
        /\ task[id] = "select" => written[id] = want
        /\ task[id] = "writing" => Append(written[id], <<id, Len(frames[id])>>) = want
        /\ task[id] = "done" => Len(written[id]) >= Len(want) - 1

\* two correctly sized frames, both written, in the order they came
C7_Witness ==
    \E id \in Runs :
        /\ Len(frames[id]) = 2
        /\ Matches(frames[id][1]) /\ Matches(frames[id][2])
        /\ written[id] = <<<<id, 1>>, <<id, 2>>>>

\* C8: the step that takes a wrongly sized frame writes nothing and leaves
\* the goroutine waiting in select (not returned: the counter is unchanged);
\* and a goroutine waiting in select has written every correctly sized frame
\* it was handed.
C8_MismatchIsSkipped ==
    [][\A id \in Runs :
          /\ (Len(frames'[id]) = Len(frames[id]) + 1 /\ ~Matches(frames'[id][Len(frames'[id])])) =>
                (written' = written /\ task'[id] = "select" /\ wg' = wg)
          /\ task'[id] = "select" => written'[id] = MatchingIdx(id, Len(frames[id]))']_vars

\* a wrongly sized frame first, then a correctly sized one that was written
C8_Witness ==
    \E id \in Runs :
        /\ Len(frames[id]) = 2
        /\ ~Matches(frames[id][1]) /\ Matches(frames[id][2])
        /\ written[id] = <<<<id, 2>>>>

\* a step of the program itself: of a call in progress or of a goroutine
\* (not a new call, not the source, the caller's context or the child)
ProgramStep ==
    \/ \E c \in Callers : StartListen(c) \/ StartSpawn(c) \/ StopWait(c) \/ StopClose(c)
                            \/ StopCloseWait(c) \/ StopServer(c) \/ StopRemove(c)
    \/ \E id \in Runs : ServeRun(id) \/ TaskCancelled(id) \/ TaskWriteOk(id) \/ TaskWriteFail(id)

\* C9 (as claimed): once the context given to Start is cancelled and the
\* program has taken every step it can take on its own, the run is torn down
\* as after Stop: goroutine ended, encoder input closed, listener closed,
\* directory removed, pipeline not running.
C9_CancelTearsDown ==
    \A id \in Runs :
        (ctxCancelled[id] /\ ~ENABLED ProgramStep) =>
            /\ task[id] = "done"
            /\ stdinClosed[id]
            /\ id \notin listening
            /\ id \notin dirs
            /\ ~running

\* C10: the step in which a write fails ends the goroutine (its counter goes
\* down) and touches nothing else; from then on no frame is taken or written;
\* and as long as no call is in progress the pipeline is still running, its
\* listener open, its directory there, and the child the one that exited.
C10_WriteFailureEndsTask ==
    [][\A id \in Runs :
          /\ (task[id] = "writing" /\ task'[id] # "writing" /\ written' = written) =>
                /\ task'[id] = "done"
                /\ wg' = wg - 1
                /\ UNCHANGED <<running, outputDir, hlsServer, ffmpeg, cancel, mu, osVars, frames>>
          /\ (taskEnd[id] = "write" /\ taskEnd'[id] = "write") =>
                (frames'[id] = frames[id] /\ written' = written /\ task'[id] = "done")
          /\ (taskEnd'[id] = "write" /\ AllIdle') =>
                /\ running'
                /\ hlsServer' \in listening'
                /\ outputDir' \in dirs'
                /\ ffmpeg' = id /\ child'[id] = "exited"]_vars

\* after the failed write, a Start is still rejected as already running
C10_Witness ==
    \E id \in Runs :
        /\ taskEnd[id] = "write" /\ running /\ AllIdle
        /\ ret.op = "Start" /\ ret.err = "already running"

WaitReadyReturns(c) == pc[c] = "wait_poll" /\ pc'[c] = "idle" /\ ret'.op = "WaitReady"

\* C12: a WaitReady that returns from its loop returns success only when the
\* playlist in its directory has content, and then the caller's context was
\* not done and the deadline not passed; the timeout error only when the
\* deadline has passed; the context's error only when the context is done.
\* The loop goes on exactly while none of the three is the case, so a playlist
\* with content ends it.
C12_WaitReadyOutcomes ==
    [][\A c \in Callers : WaitReadyReturns(c) =>
          LET file == playlist[cur[c]]
              last == ret'.trace[Len(ret'.trace)] IN
          /\ ret'.err \in {"none", "timeout", "context"}
          /\ ret'.err = "none" <=> (last.step = "stat" /\ last.ok)
          /\ ret'.err = "none" => (file = "ready" /\ cur[c] \in dirs)
          /\ ret'.err = "timeout" <=> (last.step = "deadline" /\ ~last.ok)
          /\ ret'.err = "context" <=> (last.step = "ctx" /\ ~last.ok)
          /\ \A ctxDone \in BOOLEAN, late \in BOOLEAN :
                PollOnce(ctxDone, late, file) = "again"
                    <=> (~ctxDone /\ ~late /\ file # "ready")]_vars

\* WaitReady has returned success on the running pipeline, whose playlist has content
C12_Witness ==
    /\ ret.op = "WaitReady" /\ ret.err = "none"
    /\ running /\ playlist[outputDir] = "ready"

\* C13 (as claimed): as long as no Start has succeeded (e.ffmpeg was never
\* set), no WaitReady call is in its polling loop, and a WaitReady that
\* returns has returned the not-started error.
C13_NeverStartedReturnsAtOnce ==
    ffmpeg = 0 =>
        /\ \A c \in Callers : pc[c] # "wait_poll"
        /\ ret.op = "WaitReady" => ret.err = "not started"

\* C14 (as claimed): URL() returns the empty string as long as no Start has
\* succeeded, and a URL it does return names the current server, which is
\* open and listening.
C14_URLNamesListeningServer ==
    ret.op = "URL" =>
        /\ ffmpeg = 0 => ret.url = 0
        /\ ret.url # 0 => (ret.url = hlsServer /\ ret.url \in listening)

\* what the documentation says of one field: the default when zero, else as given
Documented(given, default) == IF given = 0 THEN default ELSE given

\* C15: withDefaults gives width, height, frame rate and segment duration
\* their documented defaults 1920, 1080, 30 and 2 exactly when they are zero,
\* leaves a non-zero field as it is, never changes the port, and applied to
\* its own result changes nothing.
C15_WithDefaults ==
    [][Len(optTrace') = Len(optTrace) + 1 =>
          LET in == optTrace[Len(optTrace)]
              out == optTrace'[Len(optTrace')] IN
          /\ out.Width = Documented(in.Width, 1920)
          /\ out.Height = Documented(in.Height, 1080)
          /\ out.FrameRate = Documented(in.FrameRate, 30)
          /\ out.SegmentDuration = Documented(in.SegmentDuration, 2)
          /\ out.Port = in.Port
          /\ Len(optTrace) >= 2 => out = in]_vars

\* some fields zero, some not, port zero; defaults applied twice
C15_Witness ==
    /\ Len(optTrace) = 3
    /\ optTrace[1].Width = 0 /\ optTrace[1].Height # 0 /\ optTrace[1].Height # 1080
    /\ optTrace[1].Port = 0
    /\ optTrace[2].Width = 1920 /\ optTrace[2].Height = optTrace[1].Height
    /\ optTrace[3] = optTrace[2]

\* callers between the Lock and the Unlock of Start or Stop
InStart == {c \in Callers : pc[c] \in {"start_listen", "start_spawn"}}
InStop == {c \in Callers : pc[c] \in {"stop_wait", "stop_close", "stop_closewait",
                                        "stop_server", "stop_remove"}}

\* The attempts whose resources the pipeline holds: the one a Start in
\* progress is acquiring, and the one of the run that is up or being torn down.
Held ==
    {cur[c] : c \in InStart} \cup (IF running THEN {outputDir, hlsServer, ffmpeg} ELSE {})

Alive == {id \in Runs : task[id] \in {"select", "writing"}}

\* C17: the counter is 0 or 1 and equals the number of goroutines that have
\* not returned; a goroutine is launched in exactly the steps in which Start
\* returns success, one at a time, for the run Start returns; the step in
\* which a goroutine ends takes the counter down; and when a Stop that found
\* the pipeline running returns, no goroutine is left and the counter is 0.
C17_OneTaskPerStart ==
    [][/\ wg' \in {0, 1}
       /\ Cardinality(Alive') = wg'
       /\ (Alive' \ Alive # {}) <=> (ret'.op = "Start" /\ ret'.err = "none")
       /\ (ret'.op = "Start" /\ ret'.err = "none") =>
              (Alive = {} /\ Alive' = {ret'.url} /\ task[ret'.url] = "none" /\ wg' = wg + 1)
       /\ \A id \in Alive \ Alive' : task'[id] = "done" /\ wg' = wg - 1
       /\ (ret'.op = "Stop" /\ ret'.trace # <<>>) => (Alive' = {} /\ wg' = 0)]_vars

\* the second run's goroutine is up, the first run's has ended
C17_Witness ==
    /\ Cardinality({id \in Runs : task[id] = "done"}) = 1
    /\ Cardinality(Alive) = 1 /\ wg = 1
    /\ Alive = {ffmpeg}

\* C18 (as claimed): whenever the listener of an attempt is open or its child
\* is alive, the attempt's working directory exists.
C18_DirOutlivesServerAndChild ==
    \A id \in Runs : (id \in listening \/ child[id] = "alive") => id \in dirs

\* C19: when a Stop that found the pipeline running returns, with or without
\* an error, the pipeline is not running and the lock is free; a Start on a
\* pipeline that is not running is never rejected as already running; and a
\* Start that succeeds has made everything anew: a directory, listener, child
\* and goroutine that did not exist before, all of the same new attempt, the
\* listener open and not shut down, the child alive with its input open, the
\* goroutine waiting on a channel that has delivered nothing, its context
\* not cancelled by any earlier Stop.
C19_LifecycleIsCyclic ==
    [][/\ (ret'.op = "Stop" /\ ret'.trace # <<>>) => (~running' /\ mu' = 0)
       /\ (~running /\ ret'.op = "Start") => ret'.err # "already running"
       /\ (ret'.op = "Start" /\ ret'.err = "none") =>
              LET id == ret'.url IN
              /\ id = nextId /\ \A old \in Runs : task[old] # "none" => old < id
              /\ outputDir' = id /\ hlsServer' = id /\ ffmpeg' = id /\ cancel' = id
              /\ child[id] = "none" /\ task[id] = "none"
              /\ id \in dirs' /\ id \in listening' /\ ~inShutdown'[id]
              /\ child'[id] = "alive" /\ ~stdinClosed'[id]
              /\ task'[id] = "select" /\ frames'[id] = <<>> /\ written'[id] = <<>>
              /\ ~cancelCalled'[id] /\ ~ctxCancelled'[id]]_vars

\* the second run has started after the first was stopped with an error; the
\* first run's goroutine has returned and its child is gone
C19_Witness ==
    /\ ret.op = "Start" /\ ret.err = "none" /\ ret.url = 2
    /\ running /\ task[1] = "done" /\ child[1] = "reaped" /\ 1 \in dirs

\* C20 (as claimed): when e.ffmpeg.Close() has returned inside Stop, with or
\* without an error, the child has terminated.
C20_CloseWaitsForChild ==
    \A c \in Callers :
        (pc[c] = "stop_server" /\ ffmpeg # 0) => child[ffmpeg] \in {"exited", "reaped"}

\* C21: as long as the goroutine of a run has not returned (it waits for a
\* frame or is inside WriteFrame), it is the run of e.ffmpeg, that encoder's
\* input is not closed, no Stop has got past wg.Wait(), and the run's
\* directory and listener are there and the server not shut down; and once the
\* encoder's input is closed the goroutine has returned.
C21_NoWriteAfterClose ==
    \A id \in Runs :
        /\ task[id] \in {"select", "writing"} =>
              /\ ffmpeg = id /\ outputDir = id /\ hlsServer = id
              /\ ~stdinClosed[id]
              /\ \A c \in Callers : pc[c] \notin {"stop_close", "stop_closewait",
                                                    "stop_server", "stop_remove"}
              /\ id \in dirs /\ id \in listening /\ ~inShutdown[id]
        /\ stdinClosed[id] => task[id] = "done"

\* Stop has closed the encoder's input and waits for the child, which is still
\* alive; the goroutine has returned, directory and listener are still there
C21_Witness ==
    \E c \in Callers :
        /\ pc[c] = "stop_closewait" /\ stdinClosed[ffmpeg] /\ child[ffmpeg] = "alive"
        /\ task[ffmpeg] = "done" /\ ffmpeg \in dirs /\ ffmpeg \in listening

====
